---- MODULE Spec2Model ----
(***************************************************************************)
(* A model of QM_1D_TI_Numba.py: the Crank-Nicolson propagator of the 1D   *)
(* Schroedinger equation (Unitary_Operator_1D) and the wavefunction        *)
(* operations (Wavefunction_1D).                                           *)
(*                                                                         *)
(* Arithmetic is exact.  A complex128 value is a Gaussian rational         *)
(* <<re, im, d>> standing for (re + i*im)/d, d > 0, in lowest terms; the   *)
(* value <<0, 0, 0>> stands for a non-finite component (nan or inf), which *)
(* is what numpy's division by zero produces.  Rounding is not modelled.   *)
(***************************************************************************)
EXTENDS Integers, Sequences, FiniteSets, TLC

VARIABLES const, errstate, wf, op, ret, steps, kernel

vars == <<const, errstate, wf, op, ret, steps, kernel>>

-----------------------------------------------------------------------------
(* Complex arithmetic (numpy complex128, exact)                            *)

Abs(n) == IF n < 0 THEN -n ELSE n

RECURSIVE Gcd(_, _)
Gcd(a, b) == IF b = 0 THEN a ELSE Gcd(b, a % b)

NonFinite == <<0, 0, 0>>

IsFinite(z) == z[3] # 0

Cx(re, im, d) ==
    IF d = 0 THEN NonFinite
    ELSE LET g == Gcd(Gcd(Abs(re), Abs(im)), Abs(d))
             sg == IF d < 0 THEN -1 ELSE 1
         IN <<(sg * re) \div g, (sg * im) \div g, (sg * d) \div g>>

Zero == <<0, 0, 1>>
One == <<1, 0, 1>>
Imag == <<0, 1, 1>>
IntC(n) == <<n, 0, 1>>
Rat(n, d) == Cx(n, 0, d)

IsZero(z) == IsFinite(z) /\ z[1] = 0 /\ z[2] = 0

CAdd(a, b) ==
    IF ~IsFinite(a) \/ ~IsFinite(b) THEN NonFinite
    ELSE LET g == Gcd(a[3], b[3])
             fa == b[3] \div g
             fb == a[3] \div g
         IN Cx(a[1] * fa + b[1] * fb, a[2] * fa + b[2] * fb, a[3] * fa)

CNeg(a) == IF ~IsFinite(a) THEN NonFinite ELSE <<-a[1], -a[2], a[3]>>

CSub(a, b) == CAdd(a, CNeg(b))

CMul(a, b) ==
    IF ~IsFinite(a) \/ ~IsFinite(b) THEN NonFinite
    ELSE LET g1 == Gcd(Gcd(Abs(a[1]), Abs(a[2])), b[3])
             g2 == Gcd(Gcd(Abs(b[1]), Abs(b[2])), a[3])
             a1 == a[1] \div g1
             a2 == a[2] \div g1
             b1 == b[1] \div g2
             b2 == b[2] \div g2
         IN Cx(a1 * b1 - a2 * b2, a1 * b2 + a2 * b1,
               (a[3] \div g2) * (b[3] \div g1))

CConj(a) == IF ~IsFinite(a) THEN NonFinite ELSE <<a[1], -a[2], a[3]>>

\* 1/b; numpy yields nan or inf components for a zero divisor
CInv(b) ==
    IF ~IsFinite(b) \/ IsZero(b) THEN NonFinite
    ELSE IF b[2] = 0 THEN Cx(b[3], 0, b[1])
    ELSE LET g == Gcd(Gcd(Abs(b[1]), Abs(b[2])), b[3])
             b1 == b[1] \div g
             b2 == b[2] \div g
         IN Cx(b1 * (b[3] \div g), -b2 * (b[3] \div g), b1 * b1 + b2 * b2)

CDiv(a, b) == IF IsFinite(b) /\ IsZero(b) THEN NonFinite ELSE CMul(a, CInv(b))

\* np.abs(z)**2, a real number
CAbs2(a) == CMul(a, CConj(a))

CReal(a) == IF ~IsFinite(a) THEN NonFinite ELSE Cx(a[1], 0, a[3])

\* order on finite reals
RLess(a, b) == a[1] * b[3] < b[1] * a[3]

-----------------------------------------------------------------------------
(* Vectors and matrices: sequences of complex numbers, sequences of rows   *)

RECURSIVE CSum(_)
CSum(s) == IF s = <<>> THEN Zero ELSE CAdd(s[1], CSum(Tail(s)))

VZeros(n) == [i \in 1..n |-> Zero]

MZeros(n) == [i \in 1..n |-> VZeros(n)]

\* np.identity(N)
Identity(n) == [i \in 1..n |-> [l \in 1..n |-> IF i = l THEN One ELSE Zero]]

VAllFinite(v) == \A i \in 1..Len(v) : IsFinite(v[i])

VAllZero(v) == \A i \in 1..Len(v) : IsZero(v[i])

\* np.dot(M, v), matrix * vector
MatVec(M, v) == [i \in 1..Len(M) |-> CSum([k \in 1..Len(v) |-> CMul(M[i][k], v[k])])]

\* np.dot(v, M), vector * matrix: entry k is sum_i v[i]*M[i][k] (no conjugation)
VecMat(v, M) ==
    [k \in 1..Len(M[1]) |-> CSum([i \in 1..Len(v) |-> CMul(v[i], M[i][k])])]

\* np.dot(A, B), matrix * matrix
MatMul(A, B) ==
    [i \in 1..Len(A) |->
        [l \in 1..Len(B[1]) |-> CSum([k \in 1..Len(B) |-> CMul(A[i][k], B[k][l])])]]

Minor(M, i, l) ==
    [a \in 1..(Len(M) - 1) |->
        [b \in 1..(Len(M) - 1) |->
            M[IF a < i THEN a ELSE a + 1][IF b < l THEN b ELSE b + 1]]]

RECURSIVE Det(_)
Det(M) ==
    IF Len(M) = 1 THEN M[1][1]
    ELSE CSum([l \in 1..Len(M) |->
                 LET c == CMul(M[1][l], Det(Minor(M, 1, l)))
                 IN IF l % 2 = 1 THEN c ELSE CNeg(c)])

Cofactor(M, i, l) ==
    LET c == IF Len(M) = 1 THEN One ELSE Det(Minor(M, i, l))
    IN IF (i + l) % 2 = 0 THEN c ELSE CNeg(c)

\* np.linalg.inv(A) for det(A) # 0: the adjugate over the determinant
Inv(M) ==
    LET d == CInv(Det(M))
    IN [i \in 1..Len(M) |-> [l \in 1..Len(M) |-> CMul(Cofactor(M, l, i), d)]]

-----------------------------------------------------------------------------
(* numpy routines used by the source                                       *)

\* np.linspace(start, stop, num): num points, both end points included
linspace(start, stop, num) ==
    [i \in 1..num |->
        IF num = 1 THEN start
        ELSE CAdd(start, CMul(IntC(i - 1), CDiv(CSub(stop, start), IntC(num - 1))))]

\* np.trapz(y, dx=dx): sum of dx*(y[i+1] + y[i])/2 over the len(y)-1 intervals
trapz(y, dx) ==
    CSum([i \in 1..(Len(y) - 1) |->
            CDiv(CMul(dx, CAdd(y[i + 1], y[i])), IntC(2))])

\* np.max over finite reals
RECURSIVE RMax(_)
RMax(s) ==
    IF Len(s) = 1 THEN s[1]
    ELSE LET r == RMax(Tail(s)) IN IF RLess(s[1], r) THEN r ELSE s[1]

-----------------------------------------------------------------------------
(* The wavefunction array.  normalize() divides by a square root, so the   *)
(* array self.x is kept as [v, s], standing for v / sqrt(s), with s a      *)
(* positive rational.  The form is canonical: v has integer components     *)
(* with no common factor (any positive rational factor is moved into s),   *)
(* the zero array has s = 1, and an array with a non-finite component has  *)
(* every component non-finite (the only source of non-finite values is a   *)
(* division of the whole array by a zero scalar).                          *)

RECURSIVE LcmDen(_)
LcmDen(v) ==
    IF v = <<>> THEN 1
    ELSE LET l == LcmDen(Tail(v)) IN (v[1][3] \div Gcd(v[1][3], l)) * l

RECURSIVE Content(_)
Content(v) ==
    IF v = <<>> THEN 0
    ELSE Gcd(Gcd(Abs(v[1][1]), Abs(v[1][2])), Content(Tail(v)))

AllNonFinite(n) == [v |-> [i \in 1..n |-> NonFinite], s |-> One]

Canon(v, s) ==
    IF ~VAllFinite(v) \/ ~IsFinite(s) \/ IsZero(s) THEN AllNonFinite(Len(v))
    ELSE IF VAllZero(v) THEN [v |-> v, s |-> One]
    ELSE LET D == LcmDen(v)
             w == [i \in 1..Len(v) |->
                     <<v[i][1] * (D \div v[i][3]), v[i][2] * (D \div v[i][3]), 1>>]
             g == Content(w)
             c == Rat(D, g)
         IN [v |-> [i \in 1..Len(v) |-> <<w[i][1] \div g, w[i][2] \div g, 1>>],
             s |-> CMul(CMul(s, c), c)]

\* an array of plain complex numbers
Plain(v) == Canon(v, One)

XLen(x) == Len(x.v)

XFinite(x) == VAllFinite(x.v)

\* np.conj(x)*x, an array of (real) complex numbers
XAbs2(x) == [i \in 1..XLen(x) |-> CDiv(CAbs2(x.v[i]), x.s)]

\* x / np.sqrt(r) for a complex scalar r; in this program r is a real >= 0.
\* A zero or non-finite r makes every component non-finite.
XDivSqrt(x, r) == Canon(x.v, CMul(x.s, r))

\* np.dot(U, x)
XMatVec(M, x) == Canon(MatVec(M, x.v), x.s)

\* np.abs(np.dot(x, M))**2, an array of reals
XProb(x, M) == LET d == VecMat(x.v, M) IN [k \in 1..Len(d) |-> CDiv(CAbs2(d[k]), x.s)]

\* the Euclidean norm squared, sum of |x[i]|^2
Norm2(x) == CSum(XAbs2(x))

-----------------------------------------------------------------------------
(* Module-level kernels                                                    *)

\* K = (dt*1.0j*hbar)/(4*m*dx**2)
coef_K(m, hbar, dx, dt) ==
    CDiv(CMul(CMul(dt, Imag), hbar), CMul(CMul(IntC(4), m), CMul(dx, dx)))

\* J = (dt*1.0j)/(2*hbar)
coef_J(hbar, dt) == CDiv(CMul(dt, Imag), CMul(IntC(2), hbar))

\* Variants of loop_body with one slip each: the entry below the diagonal is
\* never set; b1 is given the sign of a1.
loop_body_upper(AB, i, l, V, K, J) ==
    LET a1 == CAdd(One, CMul(IntC(2), K))
        a2 == CNeg(K)
        b1 == CSub(One, CMul(IntC(2), K))
        b2 == K
    IN IF i = l
       THEN [A |-> [AB.A EXCEPT ![i + 1][l + 1] = CAdd(a1, CMul(J, V[i + 1]))],
             B |-> [AB.B EXCEPT ![i + 1][l + 1] = CSub(b1, CMul(J, V[i + 1]))]]
       ELSE IF l = i + 1
       THEN [A |-> [AB.A EXCEPT ![i + 1][l + 1] = a2],
             B |-> [AB.B EXCEPT ![i + 1][l + 1] = b2]]
       ELSE AB

loop_body_b1(AB, i, l, V, K, J) ==
    LET a1 == CAdd(One, CMul(IntC(2), K))
        a2 == CNeg(K)
        b1 == CAdd(One, CMul(IntC(2), K))
        b2 == K
    IN IF i = l
       THEN [A |-> [AB.A EXCEPT ![i + 1][l + 1] = CAdd(a1, CMul(J, V[i + 1]))],
             B |-> [AB.B EXCEPT ![i + 1][l + 1] = CSub(b1, CMul(J, V[i + 1]))]]
       ELSE IF l = i + 1
       THEN [A |-> [AB.A EXCEPT ![i + 1][l + 1] = a2, ![l + 1][i + 1] = a2],
             B |-> [AB.B EXCEPT ![i + 1][l + 1] = b2, ![l + 1][i + 1] = b2]]
       ELSE AB

\* One pass of the body of the double loop at (i, l), 0-based as in the source.
loop_body(AB, i, l, V, K, J) ==
    LET a1 == CAdd(One, CMul(IntC(2), K))
        a2 == CNeg(K)
        b1 == CSub(One, CMul(IntC(2), K))
        b2 == K
    IN IF i = l
       THEN [A |-> [AB.A EXCEPT ![i + 1][l + 1] = CAdd(a1, CMul(J, V[i + 1]))],
             B |-> [AB.B EXCEPT ![i + 1][l + 1] = CSub(b1, CMul(J, V[i + 1]))]]
       ELSE IF l = i + 1
       THEN [A |-> [AB.A EXCEPT ![i + 1][l + 1] = a2, ![l + 1][i + 1] = a2],
             B |-> [AB.B EXCEPT ![i + 1][l + 1] = b2, ![l + 1][i + 1] = b2]]
       ELSE AB

\* for i in range(N): for l in range(N): ...   (n counts the passes, row by row)
RECURSIVE loop(_, _, _, _, _, _)
loop(AB, n, N, V, K, J) ==
    IF n = N * N THEN AB
    ELSE loop(loop_body(AB, n \div N, n % N, V, K, J), n + 1, N, V, K, J)

\* The matrices A and B of _construct_U just before the return statement.
construct_AB(V, m, hbar, N, dx, dt) ==
    loop([A |-> MZeros(N), B |-> MZeros(N)], 0, N, V,
         coef_K(m, hbar, dx, dt), coef_J(hbar, dt))

\* np.linalg.inv raises LinAlgError on a singular matrix
Singular(A) == IsZero(Det(A))

\* return np.dot(np.linalg.inv(A), B)
_construct_U(V, m, hbar, N, dx, dt) ==
    LET AB == construct_AB(V, m, hbar, N, dx, dt)
    IN MatMul(Inv(AB.A), AB.B)

\* np.dot(U, psix); numba's np.dot raises ValueError on a size mismatch
_time_evolve_wavefunction(U, psix) == XMatVec(U, psix)

\* s*(A - B)
_mat_diff(s, A, B) ==
    [i \in 1..Len(A) |-> [l \in 1..Len(A[i]) |-> CMul(s, CSub(A[i][l], B[i][l]))]]

\* np.linalg.eig(H).  An eigendecomposition is not rational in general; the
\* model records the matrix it was computed from, not the eigenpairs.
_get_eig(H) == [E |-> <<"eigenvalues of", H>>, Eig |-> <<"eigenvectors of", H>>]

-----------------------------------------------------------------------------
(* class Constants.  The literals of the source (L = 1, N = 512,           *)
(* dt = 0.00001, 5e5) are far outside the range of exact 32-bit            *)
(* arithmetic; N, dt and the factor of _scale are drawn from small sets    *)
(* instead and the derived fields are computed as the source computes them *)

Constants(N, dt, factor) ==
    LET L == One
    IN [m |-> One, hbar |-> One, e |-> One,
        x0 |-> Rat(-1, 2), L |-> L, N |-> N,
        dx |-> CDiv(L, IntC(N)),
        dt |-> dt,
        scale |-> CMul(CDiv(IntC(128), IntC(N)), factor)]

-----------------------------------------------------------------------------
(* Inputs                                                                  *)

\* applications of the propagator to one wavefunction: in the whole program,
\* and where time evolution runs alone
MaxCalls == 1
MaxSteps == 2
\* grid points
MaxN == 3

\* the floating-point error mode of numpy (np.seterr), "warn" by default:
\* under "raise" a division by zero raises FloatingPointError
ErrStates == {"warn", "raise"}

TimeSteps == {IntC(1)}
Factors == {Rat(1, 64)}

\* values of the potential and of the waveform arrays: a few for the whole
\* program, more where only the propagator or only the wavefunction runs
FewPotentialValues == {IntC(-2)}
PotentialValues == {Zero, IntC(-2)}
FewAmplitudes == {One}
Amplitudes == {Zero, One, Imag}
\* what an out-of-bounds read of V may find in memory
Garbage == {Zero, <<0, 2, 1>>}

Callables == {"zero", "minus2", "linear", "imag"}

\* the callable f evaluated at position x
Apply(f, x) ==
    CASE f = "zero" -> Zero
      [] f = "minus2" -> IntC(-2)
      [] f = "linear" -> CMul(IntC(4), x)
      [] f = "imag" -> <<0, 2, 1>>

Arrays(S, N) == UNION {[1..n -> S] : n \in {N - 1, N, N + 1}}

\* a potential or waveform argument: an np.ndarray, a callable, or anything else
Arguments(S, N) ==
    {[kind |-> "ndarray", a |-> a, f |-> "zero"] : a \in Arrays(S, N)}
    \cup {[kind |-> "callable", a |-> <<>>, f |-> f] : f \in Callables}
    \cup {[kind |-> "other", a |-> <<>>, f |-> "zero"]}

\* eigenvalues and eigenvectors (the columns of the matrix) of an observable
\* on n points: the position basis, and, for n >= 2, a basis whose first two
\* vectors are (1, 1, 0, ...) and (1, -1, 0, ...), with a complex eigenvalue
Mixed(n) ==
    [i \in 1..n |-> [l \in 1..n |->
        IF i <= 2 /\ l <= 2 THEN (IF i = 2 /\ l = 2 THEN IntC(-1) ELSE One)
        ELSE IF i = l THEN One ELSE Zero]]

Observables(n) ==
    {[eigenvalues |-> [k \in 1..n |-> IntC(k)], eigenstates |-> Identity(n)]}
    \cup (IF n >= 2
          THEN {[eigenvalues |-> [k \in 1..n |-> IF k = 1 THEN <<2, 1, 1>> ELSE IntC(-k)],
                 eigenstates |-> Mixed(n)]}
          ELSE {})

-----------------------------------------------------------------------------
(* State                                                                   *)

NoX == Plain(<<>>)

\* norm0 is a history field: the sum of |x[i]|^2 when self.x was last assigned
\* by anything other than Unitary_Operator_1D.__call__
NoWavefunction == [exists |-> FALSE, has_x |-> FALSE, x |-> NoX, norm0 |-> Zero]

NoOperator ==
    [exists |-> FALSE, V |-> <<>>, U |-> <<>>, I |-> <<>>, has_H |-> FALSE, H |-> <<>>,
     has_eig |-> FALSE, energy_eigenstates |-> <<>>, energy_eigenvalues |-> <<>>]

\* What the last call did: the exception it raised to its caller ("none" if
\* it returned), whether it printed a message, the value it returned, its
\* locals prob and the sampled index k, the array self.x on entry (for
\* normalize, set_to_eigenstate and __call__), the observable it was given
\* and the argument of a constructor.
NoArg == [eigenvalues |-> <<>>, eigenstates |-> <<>>]

NoInput == [kind |-> "none", a |-> <<>>, f |-> "none"]

NoRet ==
    [op |-> "none", raised |-> "none", printed |-> FALSE, value |-> Zero,
     prob |-> <<>>, k |-> 0, old |-> NoX, arg |-> NoArg, input |-> NoInput]

Returned(o) == [NoRet EXCEPT !.op = o]

Raised(o, exc) == [NoRet EXCEPT !.op = o, !.raised = exc]

-----------------------------------------------------------------------------
(* class Wavefunction_1D                                                   *)

\* __init__: the attribute x is set only for a callable or an ndarray
Wavefunction_x(c, waveform) ==
    IF waveform.kind = "callable"
    THEN LET grid == linspace(c.x0, CAdd(c.L, c.x0), c.N)
         IN Plain([i \in 1..c.N |-> Apply(waveform.f, grid[i])])
    ELSE Plain(waveform.a)

Assigned(x) == [exists |-> TRUE, has_x |-> TRUE, x |-> x, norm0 |-> Norm2(x)]

Wavefunction_init(amplitudes) ==
    /\ ~wf.exists
    /\ \E waveform \in Arguments(amplitudes, const.N) :
          /\ wf' = IF waveform.kind \in {"callable", "ndarray"}
                   THEN Assigned(Wavefunction_x(const, waveform))
                   ELSE [NoWavefunction EXCEPT !.exists = TRUE]
          /\ ret' = [Returned("Wavefunction_1D") EXCEPT !.input = waveform]
    /\ steps' = 0
    /\ UNCHANGED <<const, errstate, op, kernel>>

\* A variant of normalize that divides by the integral, not by its root.
normalize_no_sqrt(x, dx, err) ==
    LET n2 == trapz(XAbs2(x), dx)
    IN IF err = "raise" /\ XFinite(x) /\ IsZero(n2)
       THEN [x |-> x, printed |-> TRUE]
       ELSE [x |-> XDivSqrt(x, CMul(n2, n2)), printed |-> FALSE]

\* normalize(): the new self.x and whether print(E) ran.  The division by
\* np.sqrt(0) raises FloatingPointError only under np.seterr "raise";
\* otherwise it yields non-finite components and the except clause is idle.
normalize(x, dx, err) ==
    LET n2 == trapz(XAbs2(x), dx)
    IN IF err = "raise" /\ XFinite(x) /\ IsZero(n2)
       THEN [x |-> x, printed |-> TRUE]
       ELSE [x |-> XDivSqrt(x, n2), printed |-> FALSE]

\* A variant of distribution that divides whatever the maximum is.
distribution_unguarded(p) ==
    IF ~VAllFinite(p) THEN [k \in 1..Len(p) |-> NonFinite]
    ELSE [k \in 1..Len(p) |-> CDiv(p[k], CSum(p))]

\* prob = np.abs(np.dot(self.x, eigenstates))**2
\* if (np.max(prob) != 0.): prob = prob/np.sum(prob)
\* (a nan maximum compares unequal to 0, and nan/nan is nan)
distribution(p) ==
    IF ~VAllFinite(p) THEN [k \in 1..Len(p) |-> NonFinite]
    ELSE IF ~IsZero(RMax(p)) THEN [k \in 1..Len(p) |-> CDiv(p[k], CSum(p))]
    ELSE p

\* A variant of choice_support that draws any index, whatever its weight.
choice_support_any(prob) == 1..Len(prob)

\* np.random.choice(a, size=1, p=prob, replace=False) raises ValueError unless
\* prob is free of nan and sums to 1; it returns an entry of positive weight
choice_valid(prob) == VAllFinite(prob) /\ CSum(prob) = One

choice_support(prob) == {k \in 1..Len(prob) : RLess(Zero, prob[k])}

Column(M, k) == [i \in 1..Len(M) |-> M[i][k]]

Wavefunction_normalize ==
    /\ wf.exists
    /\ IF ~wf.has_x
       THEN /\ ret' = Raised("normalize", "AttributeError")
            /\ wf' = wf
       ELSE LET r == normalize(wf.x, const.dx, errstate)
            IN /\ wf' = Assigned(r.x)
               /\ ret' = [Returned("normalize") EXCEPT !.printed = r.printed, !.old = wf.x]
    /\ UNCHANGED <<const, errstate, op, steps, kernel>>

expectation_value(x, eigenvalues, eigenstates) ==
    LET prob == distribution(XProb(x, eigenstates))
    IN [prob |-> prob,
        value |-> CSum([k \in 1..Len(prob) |-> CMul(CReal(eigenvalues[k]), prob[k])])]

Wavefunction_expectation_value ==
    /\ wf.exists
    /\ IF ~wf.has_x
       THEN ret' = Raised("expectation_value", "AttributeError")
       ELSE \E obs \in Observables(XLen(wf.x)) :
               LET r == expectation_value(wf.x, obs.eigenvalues, obs.eigenstates)
               IN ret' = [Returned("expectation_value") EXCEPT
                            !.value = r.value, !.prob = r.prob, !.arg = obs]
    /\ UNCHANGED <<const, errstate, wf, op, steps, kernel>>

Wavefunction_set_to_eigenstate ==
    /\ wf.exists
    /\ IF ~wf.has_x
       THEN /\ ret' = Raised("set_to_eigenstate", "AttributeError")
            /\ wf' = wf
       ELSE \E obs \in Observables(XLen(wf.x)) :
               LET prob == distribution(XProb(wf.x, obs.eigenstates))
               IN IF ~choice_valid(prob)
                  THEN /\ ret' = [Raised("set_to_eigenstate", "ValueError") EXCEPT
                                    !.prob = prob, !.arg = obs]
                       /\ wf' = wf
                  ELSE \E k \in choice_support(prob) :
                          LET r == normalize(Plain(Column(obs.eigenstates, k)),
                                             const.dx, errstate)
                          IN /\ wf' = Assigned(r.x)
                             /\ ret' = [Returned("set_to_eigenstate") EXCEPT
                                          !.printed = r.printed,
                                          !.value = obs.eigenvalues[k],
                                          !.prob = prob, !.k = k, !.arg = obs,
                                          !.old = wf.x]
    /\ UNCHANGED <<const, errstate, op, steps, kernel>>

-----------------------------------------------------------------------------
(* Momentum space.  The discrete Fourier transform is exact over the       *)
(* Gaussian rationals for the lengths 1, 2 and 4, whose roots of unity are *)
(* among 1, -i, -1, i.  Momenta are kept in units of pi.                   *)

Roots4 == <<One, <<0, -1, 1>>, IntC(-1), Imag>>

\* exp(-2*pi*i*e/n) for n in {1, 2, 4}
Twiddle(n, e) == Roots4[((e * (4 \div n)) % 4) + 1]

\* np.fft.fft
fft(v) ==
    LET n == Len(v)
    IN [k \in 1..n |-> CSum([j \in 1..n |-> CMul(v[j], Twiddle(n, (j - 1) * (k - 1)))])]

\* np.fft.ifft
ifft(F) ==
    LET n == Len(F)
    IN [j \in 1..n |->
          CDiv(CSum([k \in 1..n |-> CMul(F[k], Twiddle(n, (n - (j - 1)) * (k - 1)))]),
               IntC(n))]

\* np.fft.fftfreq(n, d): [0, 1, ..., (n-1)//2, -(n//2), ..., -1] / (d*n)
fftfreq(n, d) ==
    [j \in 1..n |->
        CDiv(IntC(IF j - 1 <= (n - 1) \div 2 THEN j - 1 ELSE j - 1 - n),
             CMul(d, IntC(n)))]

\* np.abs(np.fft.fft(self.x))**2 and the renormalisation
momentum_distribution(x) ==
    LET F == fft(x.v)
    IN distribution([k \in 1..Len(F) |-> CDiv(CAbs2(F[k]), x.s)])

\* p = 2*np.pi*freq*self.hbar/self.L, in units of pi
momentum(c, f) == CDiv(CMul(CMul(IntC(2), f), c.hbar), c.L)

\* np.dot(p, prob) and np.random.choice(a=freq, p=prob) raise ValueError when
\* the array has not self.N entries
Wavefunction_expected_momentum ==
    /\ wf.exists
    /\ IF ~wf.has_x
       THEN ret' = Raised("expected_momentum", "AttributeError")
       ELSE IF XLen(wf.x) # const.N
       THEN ret' = Raised("expected_momentum", "ValueError")
       ELSE LET prob == momentum_distribution(wf.x)
                freq == fftfreq(const.N, const.dx)
            IN ret' = [Returned("expected_momentum") EXCEPT
                         !.value = CSum([k \in 1..const.N |->
                                           CMul(momentum(const, freq[k]), prob[k])]),
                         !.prob = prob]
    /\ UNCHANGED <<const, errstate, wf, op, steps, kernel>>

\* freq = [(0. if f != k else f) for f in freq];  F = freq*F;  ifft(F)
momentum_eigenstate(x, freq, k) ==
    LET F == fft(x.v)
        mask == [j \in 1..Len(freq) |-> IF freq[j] # k THEN Zero ELSE freq[j]]
    IN Canon(ifft([j \in 1..Len(F) |-> CMul(mask[j], F[j])]), x.s)

Wavefunction_set_to_momentum_eigenstate ==
    /\ wf.exists
    /\ IF ~wf.has_x
       THEN /\ ret' = Raised("set_to_momentum_eigenstate", "AttributeError")
            /\ wf' = wf
       ELSE IF XLen(wf.x) # const.N
       THEN /\ ret' = Raised("set_to_momentum_eigenstate", "ValueError")
            /\ wf' = wf
       ELSE LET prob == momentum_distribution(wf.x)
                freq == fftfreq(const.N, const.dx)
            IN IF ~choice_valid(prob)
               THEN /\ ret' = [Raised("set_to_momentum_eigenstate", "ValueError")
                                  EXCEPT !.prob = prob]
                    /\ wf' = wf
               ELSE \E j \in choice_support(prob) :
                       LET r == normalize(momentum_eigenstate(wf.x, freq, freq[j]),
                                          const.dx, errstate)
                       IN /\ wf' = Assigned(r.x)
                          /\ ret' = [Returned("set_to_momentum_eigenstate") EXCEPT
                                       !.printed = r.printed,
                                       !.value = momentum(const, freq[j]),
                                       !.prob = prob, !.k = j]
    /\ UNCHANGED <<const, errstate, op, steps, kernel>>

-----------------------------------------------------------------------------
(* class Unitary_Operator_1D                                               *)

\* the array V handed to _construct_U: the samples times self._scale
Potential_V(c, Potential) ==
    LET V == IF Potential.kind = "ndarray" THEN Potential.a
             ELSE LET x == linspace(c.x0, CAdd(c.L, c.x0), c.N)
                  IN [i \in 1..c.N |-> Apply(Potential.f, x[i])]
    IN [i \in 1..Len(V) |-> CMul(V[i], c.scale)]

\* _construct_U is compiled without bounds checks: V[i] past the end of a
\* short array reads whatever follows it in memory
Memory(V, N, junk) == [i \in 1..N |-> IF i <= Len(V) THEN V[i] ELSE junk]

Unitary_Operator_init(values) ==
    /\ ~op.exists
    /\ \E Potential \in Arguments(values, const.N) :
       \E junk \in IF Potential.kind = "ndarray" /\ Len(Potential.a) < const.N
                   THEN Garbage ELSE {Zero} :
          IF Potential.kind = "other"
          THEN \* V *= self._scale with V unbound
               /\ op' = op
               /\ ret' = [Raised("Unitary_Operator_1D", "UnboundLocalError") EXCEPT
                            !.input = Potential]
          ELSE LET V == Potential_V(const, Potential)
                   W == Memory(V, const.N, junk)
                   AB == construct_AB(W, const.m, const.hbar, const.N, const.dx, const.dt)
               IN IF Singular(AB.A)
                  THEN /\ op' = op
                       /\ ret' = [Raised("Unitary_Operator_1D", "LinAlgError") EXCEPT
                                    !.input = Potential]
                  ELSE /\ op' = [NoOperator EXCEPT
                                   !.exists = TRUE,
                                   !.V = V,
                                   !.U = _construct_U(W, const.m, const.hbar, const.N,
                                                      const.dx, const.dt),
                                   !.I = Identity(const.N)]
                       /\ ret' = [Returned("Unitary_Operator_1D") EXCEPT
                                    !.input = Potential]
    /\ UNCHANGED <<const, errstate, wf, steps, kernel>>

Unitary_Operator_call(limit) ==
    /\ op.exists
    /\ wf.exists
    /\ steps < limit
    /\ IF ~wf.has_x
       THEN /\ ret' = Raised("__call__", "AttributeError")
            /\ UNCHANGED <<wf, steps>>
       ELSE IF XLen(wf.x) # const.N
       THEN /\ ret' = Raised("__call__", "ValueError")
            /\ UNCHANGED <<wf, steps>>
       ELSE /\ wf' = [wf EXCEPT !.x = _time_evolve_wavefunction(op.U, wf.x)]
            /\ ret' = [Returned("__call__") EXCEPT !.old = wf.x]
            /\ steps' = steps + 1
    /\ UNCHANGED <<const, errstate, op, kernel>>

\* self.H = _mat_diff((ihbar/dt), self.U, self.I)
Hamiltonian(c, U, I) == _mat_diff(CDiv(CMul(Imag, c.hbar), c.dt), U, I)

\* A variant of Set_Hamiltonian that forms U - I in place (self.U -= self.I).
Set_Hamiltonian_in_place ==
    /\ op.exists
    /\ op' = [op EXCEPT !.has_H = TRUE, !.H = Hamiltonian(const, op.U, op.I),
                        !.U = _mat_diff(One, op.U, op.I)]
    /\ ret' = Returned("Set_Hamiltonian")
    /\ UNCHANGED <<const, errstate, wf, steps, kernel>>

Unitary_Operator_Set_Hamiltonian ==
    /\ op.exists
    /\ op' = [op EXCEPT !.has_H = TRUE, !.H = Hamiltonian(const, op.U, op.I)]
    /\ ret' = Returned("Set_Hamiltonian")
    /\ UNCHANGED <<const, errstate, wf, steps, kernel>>

Unitary_Operator_Set_Energy_Eigenstates ==
    /\ op.exists
    /\ LET H == Hamiltonian(const, op.U, op.I)
           r == _get_eig(H)
       IN op' = [op EXCEPT !.has_H = TRUE, !.H = H, !.has_eig = TRUE,
                           !.energy_eigenstates = r.Eig, !.energy_eigenvalues = r.E]
    /\ ret' = Returned("Set_Energy_Eigenstates")
    /\ UNCHANGED <<const, errstate, wf, steps, kernel>>

-----------------------------------------------------------------------------
(* _construct_U pass by pass: the state of one call, from the zero         *)
(* matrices to the return statement                                        *)

Idle == [pc |-> "idle", V |-> <<>>, N |-> 0, K |-> Zero, J |-> Zero, n |-> 0,
         A |-> <<>>, B |-> <<>>]

construct_enter(V, m, hbar, N, dx, dt) ==
    [pc |-> "loop", V |-> V, N |-> N, K |-> coef_K(m, hbar, dx, dt),
     J |-> coef_J(hbar, dt), n |-> 0, A |-> MZeros(N), B |-> MZeros(N)]

construct_pass ==
    /\ kernel.pc = "loop"
    /\ LET N == kernel.N
           AB == loop_body([A |-> kernel.A, B |-> kernel.B],
                           kernel.n \div N, kernel.n % N, kernel.V, kernel.K, kernel.J)
       IN kernel' = [kernel EXCEPT !.A = AB.A, !.B = AB.B, !.n = kernel.n + 1,
                                   !.pc = IF kernel.n + 1 = N * N THEN "return"
                                          ELSE "loop"]
    /\ UNCHANGED <<const, errstate, wf, op, ret, steps>>

-----------------------------------------------------------------------------
(* Specifications                                                          *)

Configured(sizes, errs) ==
    /\ const \in {Constants(N, dt, factor) :
                    N \in sizes, dt \in TimeSteps, factor \in Factors}
    /\ errstate \in errs
    /\ wf = NoWavefunction
    /\ op = NoOperator
    /\ ret = NoRet
    /\ steps = 0

InitOn(sizes, errs) == Configured(sizes, errs) /\ kernel = Idle

\* The program: one propagator and one wavefunction on a grid of 2 points,
\* under numpy's default error mode.
EvolveSizes == {2}

Init == InitOn(EvolveSizes, {"warn"})

Next ==
    \/ Wavefunction_init(FewAmplitudes)
    \/ Wavefunction_normalize
    \/ Wavefunction_expectation_value
    \/ Wavefunction_expected_momentum
    \/ Wavefunction_set_to_momentum_eigenstate
    \/ Wavefunction_set_to_eigenstate
    \/ Unitary_Operator_init(FewPotentialValues)
    \/ Unitary_Operator_call(MaxCalls)
    \/ Unitary_Operator_Set_Hamiltonian
    \/ Unitary_Operator_Set_Energy_Eigenstates

Spec == Init /\ [][Next]_vars

\* Time evolution alone, over more potentials and waveforms.
NextEvolve ==
    \/ Wavefunction_init(Amplitudes)
    \/ Unitary_Operator_init(PotentialValues)
    \/ Unitary_Operator_call(MaxSteps)

SpecEvolve == Init /\ [][NextEvolve]_vars

\* The wavefunction alone, on grids of 2..MaxN points, in both error modes.
InitWave == InitOn(2..MaxN, ErrStates)

NextWave ==
    \/ Wavefunction_init(Amplitudes)
    \/ Wavefunction_normalize
    \/ Wavefunction_expectation_value
    \/ Wavefunction_set_to_eigenstate

SpecWave == InitWave /\ [][NextWave]_vars

\* The assembly of A and B by _construct_U, for every potential over
\* AssemblyValues on grids of 2..MaxN points.
AssemblyValues == {Zero, IntC(-2), <<0, 2, 1>>}

InitAssembly ==
    /\ Configured(2..MaxN, {"warn"})
    /\ \E V \in [1..const.N -> AssemblyValues] :
          kernel = construct_enter(V, const.m, const.hbar, const.N, const.dx, const.dt)

SpecAssembly == InitAssembly /\ [][construct_pass]_vars

-----------------------------------------------------------------------------
(* Properties                                                              *)

IsReal(z) == IsFinite(z) /\ z[2] = 0

\* the conjugate transpose
Adjoint(M) == [i \in 1..Len(M) |-> [l \in 1..Len(M) |-> CConj(M[l][i])]]

IsUnitary(U) == MatMul(Adjoint(U), U) = Identity(Len(U))

\* M is the N x N matrix with diagonal d, both off-diagonals o, zero elsewhere
Tridiagonal(M, N, d, o) ==
    /\ Len(M) = N
    /\ \A i \in 1..N :
          /\ Len(M[i]) = N
          /\ \A l \in 1..N :
                M[i][l] = IF i = l THEN d[i] ELSE IF Abs(i - l) = 1 THEN o ELSE Zero

C1_FullPotential == op.exists /\ Len(op.V) = const.N

C1_RealPotential == C1_FullPotential /\ \A i \in 1..Len(op.V) : IsReal(op.V[i])

C1_Preserved ==
    /\ IsUnitary(op.U)
    /\ (wf.has_x /\ XLen(wf.x) = const.N) => Norm2(wf.x) = wf.norm0

Integral(x, dx) ==
    LET y == XAbs2(x)
    IN IF Len(y) = 0 THEN Zero
       ELSE CMul(dx, CSub(CSum(y), CDiv(CAdd(y[1], y[Len(y)]), IntC(2))))

\* C2: after normalize() on an array whose trapezoid integral of |x|^2 is
\* nonzero and finite, that integral is 1, and normalizing again leaves the
\* array as it is.
C2_Normalized ==
    (/\ ret.op = "normalize"
     /\ ret.raised = "none"
     /\ XFinite(ret.old)
     /\ ~IsZero(Integral(ret.old, const.dx)))
    => /\ Integral(wf.x, const.dx) = One
       /\ normalize(wf.x, const.dx, errstate).x = wf.x

\* C2 witness: normalize() has rescaled a complex array on 3 points whose
\* integral was neither 0 nor 1
C2_Rescaled ==
    /\ ret.op = "normalize"
    /\ XLen(ret.old) = 3
    /\ XFinite(ret.old)
    /\ Integral(ret.old, const.dx) \notin {Zero, One}
    /\ \E i \in 1..3 : ret.old.v[i][2] # 0
    /\ wf.x # ret.old
    /\ Integral(wf.x, const.dx) = One

C6_DegeneracyReported ==
    /\ (/\ ret.op = "normalize"
        /\ wf.has_x
        /\ XFinite(ret.old)
        /\ IsZero(Integral(ret.old, const.dx)))
       => (ret.raised = "none" /\ ret.printed /\ wf.x = ret.old)
    /\ (/\ ret.op = "set_to_eigenstate"
        /\ wf.has_x
        /\ ret.prob # <<>>
        /\ VAllZero(ret.prob))
       => (ret.raised = "none" /\ ret.printed)

\* C4: a call of set_to_momentum_eigenstate that returns has drawn a
\* frequency of nonzero probability; afterwards the Fourier coefficient of
\* the wavefunction at that frequency is nonzero and every other one is zero,
\* the wavefunction is normalized, and the value returned is 2*pi*k*hbar/L
\* (here in units of pi).
C4_MomentumEigenstate ==
    (ret.op = "set_to_momentum_eigenstate" /\ ret.raised = "none")
    => LET N == const.N
           j == ret.k
           k == CDiv(IntC(IF j - 1 <= (N - 1) \div 2 THEN j - 1 ELSE j - 1 - N),
                     CMul(const.dx, IntC(N)))
           F == fft(wf.x.v)
       IN /\ j \in 1..N
          /\ ~IsZero(ret.prob[j])
          /\ XFinite(wf.x)
          /\ ~IsZero(F[j])
          /\ \A h \in 1..N : h # j => IsZero(F[h])
          /\ Integral(wf.x, const.dx) = One
          /\ CMul(ret.value, const.L) = CMul(CMul(IntC(2), k), const.hbar)

C7_Invalid(input) ==
    \/ input.kind = "other"
    \/ input.kind = "ndarray" /\ Len(input.a) # const.N

\* C7: a constructor given an argument that is neither a callable nor an
\* array, or an array that has not N entries, raises, and produces no
\* wavefunction and no propagator.
C7_InvalidRejected ==
    /\ (ret.op = "Wavefunction_1D" /\ C7_Invalid(ret.input))
       => (ret.raised # "none" /\ ~wf.exists)
    /\ (ret.op = "Unitary_Operator_1D" /\ C7_Invalid(ret.input))
       => (ret.raised # "none" /\ ~op.exists)

C9_Samples(f) ==
    [i \in 1..const.N |-> Apply(f, CAdd(const.x0, CMul(IntC(i - 1), const.dx)))]

\* C9: sample i of a waveform or potential given as a callable is the
\* callable at x0 + i*dx (times _scale for the potential), with dx = L/N.
C9_SampledOnGrid ==
    /\ CMul(const.dx, IntC(const.N)) = const.L
    /\ (ret.op = "Wavefunction_1D" /\ ret.input.kind = "callable")
       => wf.x = Plain(C9_Samples(ret.input.f))
    /\ (ret.op = "Unitary_Operator_1D" /\ ret.input.kind = "callable"
                                       /\ ret.raised = "none")
       => op.V = [i \in 1..const.N |->
                    CMul(C9_Samples(ret.input.f)[i], const.scale)]

C10_WavefunctionOps ==
    {"Wavefunction_1D", "normalize", "expectation_value", "expected_momentum",
     "set_to_momentum_eigenstate", "set_to_eigenstate"}

\* C10: once the propagator exists no step changes its U or I; a
\* __call__ that returns replaces the wavefunction's x by U*x and leaves the
\* propagator alone; Set_Hamiltonian changes only H, to (i*hbar/dt)*(U - I);
\* Set_Energy_Eigenstates changes only H and the eigenpairs; and no
\* wavefunction operation, whether it returns or raises, changes the
\* propagator.
C10_Frame ==
    [][/\ op.exists => (op'.exists /\ op'.U = op.U /\ op'.I = op.I)
       /\ ret'.op = "Unitary_Operator_1D" /\ ret'.raised = "none"
          => op'.I = Identity(const.N)
       /\ ret'.op = "__call__"
          => /\ op' = op
             /\ ret'.raised = "none" => wf'.x = Canon(MatVec(op.U, wf.x.v), wf.x.s)
             /\ ret'.raised # "none" => wf' = wf
       /\ ret'.op = "Set_Hamiltonian"
          => /\ wf' = wf
             /\ op' = [op EXCEPT
                         !.has_H = TRUE,
                         !.H = [i \in 1..const.N |-> [l \in 1..const.N |->
                                  CMul(CDiv(CMul(Imag, const.hbar), const.dt),
                                       CSub(op.U[i][l], op.I[i][l]))]]]
       /\ ret'.op = "Set_Energy_Eigenstates"
          => /\ wf' = wf
             /\ op' = [op EXCEPT !.has_H = TRUE, !.H = op'.H, !.has_eig = TRUE,
                                 !.energy_eigenstates = op'.energy_eigenstates,
                                 !.energy_eigenvalues = op'.energy_eigenvalues]
       /\ ret'.op \in C10_WavefunctionOps => op' = op]_vars

\* C10 witness: a propagator whose H and eigenpairs are set has stepped a
\* wavefunction, and a later normalize() has failed on it, with U and I
\* still those of the construction
C10_Exercised ==
    /\ op.has_eig
    /\ steps = 1
    /\ ret.op = "normalize"
    /\ ~XFinite(wf.x)
    /\ op.I = Identity(const.N)
    /\ Len(op.V) = const.N
    /\ op.U = _construct_U(op.V, const.m, const.hbar, const.N, const.dx, const.dt)

====
